---------------------------- MODULE Spec2Model ----------------------------
(***************************************************************************)
(* A model of harmonize-ds: the data-source registry, the facades and the  *)
(* WFS / WCS / STAC adapters.                                              *)
(*                                                                         *)
(* Conventions.  A call's outcome is a record with kind "ok" or "raise";   *)
(* "raise" carries the Python exception class in err.  An optional value   *)
(* is a sequence of length 0 or 1.  A filter dict is a function whose      *)
(* DOMAIN is its key set; filter=None and {} take the same branch of every *)
(* "if filter:" and are both the empty function.                           *)
(***************************************************************************)
EXTENDS Integers, Sequences, FiniteSets, TLC

VARIABLES
    datasources,   \* DataSourceManager._datasources
    remote,        \* per host: the metadata revision the server holds
    client,        \* the CollectionClient the caller holds (optional)
    calls,         \* adapter methods invoked by the last facade operation
    ret,           \* outcome of the last facade operation
    gd,            \* the activation of WFS.get_dataset being run
    served,        \* the responses the server gave to gd's page requests
    adapter,       \* an adapter used directly (optional)
    service,       \* what the server behind that adapter holds and how it answers
    aret,          \* outcome of the last call on the adapter
    net,           \* the requests that call sent
    enumerated,    \* the collection ids the last enumeration returned
    first_get,     \* the first WCS.get call and the URL it returned (optional)
    cql            \* the last filter given to WFS and what was built from it

facadeVars == <<datasources, remote, client, calls, ret>>

getVars == <<gd, served>>

adapterVars == <<adapter, service, aret, net, enumerated, first_get>>

cqlVars == <<cql>>

vars == <<datasources, remote, client, calls, ret, gd, served,
          adapter, service, aret, net, enumerated, first_get, cql>>

-----------------------------------------------------------------------------
(* Bounds of the model *)
MaxSources == 2

\* The most features a server sends over one get_dataset call, and in one page.
MaxTotal == 3

MaxPageLen == 2

\* The largest max_features argument tried.
MaxFeaturesArg == 2

-----------------------------------------------------------------------------
(* Outcomes *)
Ok(v) == [kind |-> "ok", err |-> "", val |-> v]

Raise(e) == [kind |-> "raise", err |-> e, val |-> <<>>]

IsOk(o) == o.kind = "ok"

Range(s) == {s[i] : i \in 1..Len(s)}

-----------------------------------------------------------------------------
(* HTTP.  A response is [status, body]; status is "ok", "http_error" (a    *)
(* status >= 400) or "conn_error" (DNS, refused, timeout).                 *)

\* WFS._get: both failures are re-raised as RuntimeError.
WFS__get(resp) ==
    IF resp.status = "http_error" THEN Raise("RuntimeError: Error HTTP")
    ELSE IF resp.status = "conn_error" THEN Raise("RuntimeError: Connection Error With WFS")
    ELSE Ok(resp.body)

\* Utils._get, the shared fetch helper (spec section 4.1).
Utils__get(resp) ==
    IF resp.status = "http_error" THEN Raise("RemoteServiceError")
    ELSE IF resp.status = "conn_error" THEN Raise("ConnectionError")
    ELSE Ok(resp.body)

-----------------------------------------------------------------------------
(* WFS metadata operations.                                                *)
(* A GetCapabilities body is [wellformed, types], types the FeatureType    *)
(* elements in document order, each [name, title, abstract, bbox].         *)
(* A DescribeFeatureType body is [json, targetPrefix, featureTypes], each  *)
(* feature type [typeName, properties], each property [name, localType,    *)
(* type].                                                                  *)

\* WFS.list_features: the text of the first child (wfs:Name) of every FeatureType.
list_features(resp) ==
    LET doc == Utils__get(resp) IN
    IF ~IsOk(doc) THEN doc
    ELSE IF ~doc.val.wellformed THEN Raise("ExpatError")
    ELSE Ok([i \in 1..Len(doc.val.types) |-> doc.val.types[i].name])

\* WFS.collections
WFS_collections(source_id, resp) ==
    LET fs == list_features(resp) IN
    IF ~IsOk(fs) THEN fs
    ELSE Ok([i \in 1..Len(fs.val) |-> [id |-> source_id, collection |-> fs.val[i]]])

\* WFS.describe_feature
describe_feature(ft_name, resp) ==
    LET doc == WFS__get(resp) IN
    IF ~IsOk(doc) THEN doc
    ELSE IF ~doc.val.json THEN Raise("JSONDecodeError")
    ELSE IF doc.val.featureTypes = <<>>
         THEN Raise("ValueError: No featureTypes found in response.")
    ELSE Ok(doc.val)

\* tree.find(".//wfs:FeatureType[wfs:Name='ft_name']"): the first match, or None.
RECURSIVE FindFeatureType(_, _)
FindFeatureType(types, ft_name) ==
    IF types = <<>> THEN <<>>
    ELSE IF Head(types).name = ft_name THEN <<Head(types)>>
    ELSE FindFeatureType(Tail(types), ft_name)

\* WFS.capabilites: Ok(<<>>) is the None it returns when no element matches.
capabilites(ft_name, resp) ==
    LET doc == WFS__get(resp) IN
    IF ~IsOk(doc) THEN doc
    ELSE IF ~doc.val.wellformed THEN Raise("XMLSyntaxError")
    ELSE LET feature_el == FindFeatureType(doc.val.types, ft_name) IN
         IF feature_el = <<>> THEN Ok(<<>>)
         ELSE Ok(<<[name |-> ft_name,
                    title |-> feature_el[1].title,
                    abstract |-> feature_el[1].abstract,
                    bbox |-> feature_el[1].bbox]>>)

supported_geometries == {"gml:MultiPolygon", "gml:Point", "gml:Polygon"}

Attr(prop) == [name |-> prop.name, localtype |-> prop.localType, type |-> prop.type]

\* The loop of WFS.describe over ft_info["properties"]: feature["geometry"] is
\* assigned at every property of a supported type.
RECURSIVE GeometryLoop(_, _)
GeometryLoop(props, geometry) ==
    IF props = <<>> THEN geometry
    ELSE GeometryLoop(Tail(props),
                      IF Head(props).type \in supported_geometries
                      THEN <<Attr(Head(props))>> ELSE geometry)

\* WFS.describe
WFS_describe(ft_name, dftResp, capsResp) ==
    IF ft_name = "" THEN Raise("ValueError: Missing feature name.")
    ELSE LET js == describe_feature(ft_name, dftResp) IN
    IF ~IsOk(js) THEN js
    ELSE LET cap == capabilites(ft_name, capsResp) IN
    IF ~IsOk(cap) THEN cap
    ELSE IF cap.val = <<>> THEN Raise("TypeError: 'NoneType' object is not subscriptable")
    ELSE LET ft_info == js.val.featureTypes[1] IN
         Ok([name |-> ft_info.typeName,
             namespace |-> js.val.targetPrefix,
             full_name |-> <<js.val.targetPrefix, ":", ft_info.typeName>>,
             attributes |-> [i \in 1..Len(ft_info.properties) |-> Attr(ft_info.properties[i])],
             title |-> cap.val[1].title,
             abstract |-> cap.val[1].abstract,
             bbox |-> cap.val[1].bbox,
             ft_name |-> ft_name,
             geometry |-> GeometryLoop(ft_info.properties, <<>>)])

-----------------------------------------------------------------------------
(* WCS.                                                                    *)
(* A GetCapabilities body is [wellformed, ns, summaries]: ns is the        *)
(* namespace of the document's elements ("wcs/2.0" or "wcs/1.1.1"), and    *)
(* each CoverageSummary is [id, title, abstract, keywords, bbox], id being *)
(* the text of its wcs:CoverageId (2.0) or wcs:Identifier (1.1.1) child,   *)
(* "" when it has none.  A DescribeCoverage body is [wellformed, ns,       *)
(* hasDescription, supportedCRS, timepositions].                           *)

RECURSIVE CoverageIds(_)
CoverageIds(summaries) ==
    IF summaries = <<>> THEN <<>>
    ELSE (IF Head(summaries).id # "" THEN <<Head(summaries).id>> ELSE <<>>)
         \o CoverageIds(Tail(summaries))

\* list_image with a bare except: every failure becomes the empty list.
list_image_swallow(resp) ==
    LET doc == Utils__get(resp) IN
    IF ~IsOk(doc) THEN Ok(<<>>)
    ELSE IF ~doc.val.wellformed THEN Ok(<<>>)
    ELSE IF doc.val.ns # "wcs/2.0" THEN Ok(<<>>)
    ELSE Ok(CoverageIds(doc.val.summaries))

\* WCS.list_image: only etree.XMLSyntaxError is caught.
list_image(resp) ==
    LET doc == Utils__get(resp) IN
    IF ~IsOk(doc) THEN doc
    ELSE IF ~doc.val.wellformed THEN Ok(<<>>)
    ELSE IF doc.val.ns # "wcs/2.0" THEN Ok(<<>>)
    ELSE Ok(CoverageIds(doc.val.summaries))

\* WCS.collections
WCS_collections(source_id, resp) ==
    LET ls == list_image(resp) IN
    IF ~IsOk(ls) THEN ls
    ELSE Ok([i \in 1..Len(ls.val) |-> [id |-> source_id, collection |-> ls.val[i]]])

RECURSIVE FindSummary(_, _)
FindSummary(summaries, collection_id) ==
    IF summaries = <<>> THEN <<>>
    ELSE IF Head(summaries).id = collection_id THEN <<Head(summaries)>>
    ELSE FindSummary(Tail(summaries), collection_id)

\* WCS.getcapabilities: looks for wcs:Identifier of the 1.1.1 namespace.
getcapabilities(collection_id, resp) ==
    LET doc == Utils__get(resp) IN
    IF ~IsOk(doc) THEN doc
    ELSE IF ~doc.val.wellformed THEN Raise("ParseError")
    ELSE LET hit == IF doc.val.ns = "wcs/1.1.1"
                    THEN FindSummary(doc.val.summaries, collection_id) ELSE <<>> IN
         IF hit = <<>> THEN Raise("ValueError: Coverage not found in GetCapabilities.")
         ELSE Ok([id |-> hit[1].id,
                  title |-> hit[1].title,
                  abstract |-> hit[1].abstract,
                  keywords |-> hit[1].keywords,
                  boundingBoxWGS84 |-> hit[1].bbox])

SeqMin(s) == CHOOSE x \in Range(s) : \A y \in Range(s) : x <= y

SeqMax(s) == CHOOSE x \in Range(s) : \A y \in Range(s) : x >= y

\* WCS.describe_coverage; the timelimits (None, None) is <<>>.
describe_coverage(collection_id, resp) ==
    LET doc == Utils__get(resp) IN
    IF ~IsOk(doc) THEN doc
    ELSE IF ~doc.val.wellformed THEN Raise("ParseError")
    ELSE IF ~(doc.val.ns = "wcs/1.1.1" /\ doc.val.hasDescription)
         THEN Raise("ValueError: CoverageDescription not found in DescribeCoverage response")
    ELSE Ok([supportedCRS |-> doc.val.supportedCRS,
             timepositions |-> doc.val.timepositions,
             timelimits |-> IF doc.val.timepositions # <<>>
                            THEN <<SeqMin(doc.val.timepositions), SeqMax(doc.val.timepositions)>>
                            ELSE <<>>])

\* WCS.describe
WCS_describe(collection_id, capsResp, covResp) ==
    LET infos == getcapabilities(collection_id, capsResp) IN
    IF ~IsOk(infos) THEN infos
    ELSE LET coverage == describe_coverage(collection_id, covResp) IN
    IF ~IsOk(coverage) THEN coverage
    ELSE Ok([title |-> infos.val.title,
             abstract |-> infos.val.abstract,
             name |-> infos.val.id,
             keywords |-> infos.val.keywords,
             wgs84_bbox |-> infos.val.boundingBoxWGS84,
             timelimits |-> coverage.val.timelimits,
             timepositions |-> coverage.val.timepositions,
             supportedCRS |-> coverage.val.supportedCRS])

\* ",".join(map(str, xs))
RECURSIVE Join(_)
Join(xs) ==
    IF xs = <<>> THEN <<>>
    ELSE IF Len(xs) = 1 THEN <<ToString(xs[1])>>
    ELSE <<ToString(xs[1]), ",">> \o Join(Tail(xs))

\* WCS.get: the URL as the sequence of its pieces.
WCS_get(url, collection_id, filter, srid) ==
    LET base_url == url \o <<"?service=WCS&version=2.0.1&request=GetCoverage&coverageId=",
                             collection_id, "&crs=EPSG:", ToString(srid)>>
        keys == DOMAIN filter
    IN  base_url
        \o (IF "bbox" \in keys THEN <<"&bbox=">> \o Join(filter["bbox"]) ELSE <<>>)
        \o (IF "width" \in keys /\ "height" \in keys
            THEN <<"&width=", ToString(filter["width"]), "&height=", ToString(filter["height"])>>
            ELSE <<>>)
        \o (IF "time" \in keys THEN <<"&time=", filter["time"]>> ELSE <<>>)
        \o (IF "format" \in keys THEN <<"&format=", filter["format"]>> ELSE <<>>)

-----------------------------------------------------------------------------
(* STAC.  The pystac client session answers [status, collections], each    *)
(* collection [id, title, abstract].                                       *)

\* STAC.collections
STAC_collections(source_id, svc) ==
    IF svc.status # "ok" THEN Raise("APIError")
    ELSE Ok([i \in 1..Len(svc.collections) |->
                [id |-> source_id, collection |-> svc.collections[i].id]])

\* STAC.describe
STAC_describe(collection_id, svc) ==
    IF svc.status # "ok" THEN Raise("APIError")
    ELSE LET collection == FindSummary(svc.collections, collection_id) IN
         IF collection = <<>> THEN Raise("ValueError: Collection not found.")
         ELSE Ok(collection[1])

-----------------------------------------------------------------------------
(* WFS.get_dataset.                                                        *)
(* Strings the code inspects (the date value) are sequences of characters; *)
(* a built string is the sequence of its pieces.  A raw feature is         *)
(* [geometry |-> [type |-> kind], properties |-> a function of its keys].  *)
(* A GetFeature body is [json, features, hasCrs].                          *)

\* str.split(sep): the pieces between the separators.
RECURSIVE Split(_, _, _)
Split(s, sep, piece) ==
    IF s = <<>> THEN <<piece>>
    ELSE IF Head(s) = sep THEN <<piece>> \o Split(Tail(s), sep, <<>>)
    ELSE Split(Tail(s), sep, Append(piece, Head(s)))

\* " AND ".join(clauses)
RECURSIVE JoinClauses(_)
JoinClauses(clauses) ==
    IF clauses = <<>> THEN <<>>
    ELSE IF Len(clauses) = 1 THEN clauses[1]
    ELSE clauses[1] \o <<" AND ">> \o JoinClauses(Tail(clauses))

\* build_cql_filter with the two ends of the range exchanged.
build_cql_filter_swapped(filter) ==
    IF "date" \in DOMAIN filter
    THEN LET date_value == filter["date"] IN
         IF "/" \in Range(date_value)
         THEN LET parts == Split(date_value, "/", <<>>) IN
              IF Len(parts) # 2 THEN Raise("ValueError: too many values to unpack")
              ELSE Ok(JoinClauses(<< <<"date BETWEEN '">> \o parts[2]
                                     \o <<"' AND '">> \o parts[1] \o <<"'">> >>))
         ELSE Ok(JoinClauses(<< <<"date = '">> \o date_value \o <<"'">> >>))
    ELSE Ok(JoinClauses(<<>>))

\* WFS.build_cql_filter
build_cql_filter(filter) ==
    IF "date" \in DOMAIN filter
    THEN LET date_value == filter["date"] IN
         IF "/" \in Range(date_value)
         THEN LET parts == Split(date_value, "/", <<>>) IN
              IF Len(parts) # 2 THEN Raise("ValueError: too many values to unpack")
              ELSE Ok(JoinClauses(<< <<"date BETWEEN '">> \o parts[1]
                                     \o <<"' AND '">> \o parts[2] \o <<"'">> >>))
         ELSE Ok(JoinClauses(<< <<"date = '">> \o date_value \o <<"'">> >>))
    ELSE Ok(JoinClauses(<<>>))

WFS_FORMATS(output) ==
    CASE output = "shp" -> "shape-zip"
      [] output = "kml" -> "kml"
      [] output = "csv" -> "csv"
      [] OTHER -> "application/json"

WFS_base_path == "wfs?service=wfs&version=2.0.0"

\* get_dataset up to the loop: the GetFeature URL without its paging parameters.
GetFeatureUrl(url, ft_name, bbox, filter, output, epsg) ==
    LET base_url == url \o <<"/", WFS_base_path, "&request=GetFeature&typeName=", ft_name,
                             "&outputFormat=", WFS_FORMATS(output),
                             "&srsName=EPSG:", ToString(epsg)>>
                        \o (IF bbox # "" THEN <<"&bbox=", bbox>> ELSE <<>>)
    IN  IF DOMAIN filter # {}
        THEN LET cql_filter == build_cql_filter(filter) IN
             IF ~IsOk(cql_filter) THEN cql_filter
             ELSE IF cql_filter.val # <<>>
                  THEN Ok(base_url \o <<"&cql_filter=">> \o cql_filter.val)
                  ELSE Ok(base_url)
        ELSE Ok(base_url)

NoResult == [kind |-> "none", err |-> "", val |-> <<>>]

\* The activation of one get_dataset call; max_features 0 is None (or 0).
get_dataset_enter(url, ft_name, max_features, bbox, filter, output, page_size, epsg) ==
    LET base == GetFeatureUrl(url, ft_name, bbox, filter, output, epsg)
        frame == [pc |-> "loop", max_features |-> max_features, epsg |-> epsg,
                  page_size |-> page_size, base_url |-> <<>>,
                  start_index |-> 0, total_received |-> 0, all_features |-> <<>>,
                  requests |-> <<>>, data |-> <<>>, result |-> NoResult]
    IN  IF ft_name = ""
        THEN [frame EXCEPT !.pc = "done", !.result = Raise("ValueError: Missing feature name.")]
        ELSE IF ~IsOk(base) THEN [frame EXCEPT !.pc = "done", !.result = base]
        ELSE [frame EXCEPT !.base_url = base.val]

\* The paging parameters of the next page_url.
PageRequest(fr) == [startIndex |-> fr.start_index, count |-> fr.page_size]

\* LoopIteration advancing the offset by the page size asked for instead of
\* the count received.
LoopIteration_bypagesize(fr, resp) ==
    LET sent == [fr EXCEPT !.requests = Append(@, PageRequest(fr))]
        doc == WFS__get(resp)
    IN  IF ~IsOk(doc) THEN [sent EXCEPT !.pc = "done", !.result = doc]
        ELSE IF ~doc.val.json
             THEN [sent EXCEPT !.pc = "done",
                               !.result = Raise("RuntimeError: Falha ao decodificar JSON")]
        ELSE LET features == doc.val.features
                 received == Len(features)
                 got == [sent EXCEPT !.data = <<[hasCrs |-> doc.val.hasCrs]>>]
             IN  IF features = <<>> THEN [got EXCEPT !.pc = "convert"]
                 ELSE LET more == [got EXCEPT !.all_features = @ \o features,
                                              !.total_received = @ + received]
                      IN  IF fr.max_features # 0 /\ more.total_received >= fr.max_features
                          THEN [more EXCEPT !.pc = "convert"]
                          ELSE [more EXCEPT !.start_index = @ + fr.page_size]

\* LoopIteration without the test of max_features: only an empty page ends
\* the loop.
LoopIteration_nolimit(fr, resp) ==
    LET sent == [fr EXCEPT !.requests = Append(@, PageRequest(fr))]
        doc == WFS__get(resp)
    IN  IF ~IsOk(doc) THEN [sent EXCEPT !.pc = "done", !.result = doc]
        ELSE IF ~doc.val.json
             THEN [sent EXCEPT !.pc = "done",
                               !.result = Raise("RuntimeError: Falha ao decodificar JSON")]
        ELSE LET features == doc.val.features
                 received == Len(features)
                 got == [sent EXCEPT !.data = <<[hasCrs |-> doc.val.hasCrs]>>]
             IN  IF features = <<>> THEN [got EXCEPT !.pc = "convert"]
                 ELSE [got EXCEPT !.all_features = @ \o features,
                                  !.total_received = @ + received,
                                  !.start_index = @ + received]

\* One iteration of the while loop, the server answering resp.
LoopIteration(fr, resp) ==
    LET sent == [fr EXCEPT !.requests = Append(@, PageRequest(fr))]
        doc == WFS__get(resp)
    IN  IF ~IsOk(doc) THEN [sent EXCEPT !.pc = "done", !.result = doc]
        ELSE IF ~doc.val.json
             THEN [sent EXCEPT !.pc = "done",
                               !.result = Raise("RuntimeError: Falha ao decodificar JSON")]
        ELSE LET features == doc.val.features
                 received == Len(features)
                 got == [sent EXCEPT !.data = <<[hasCrs |-> doc.val.hasCrs]>>]
             IN  IF features = <<>> THEN [got EXCEPT !.pc = "convert"]
                 ELSE LET more == [got EXCEPT !.all_features = @ \o features,
                                              !.total_received = @ + received]
                      IN  IF fr.max_features # 0 /\ more.total_received >= fr.max_features
                          THEN [more EXCEPT !.pc = "convert"]
                          ELSE [more EXCEPT !.start_index = @ + received]

SupportedKinds == {"Point", "MultiPoint", "LineString", "MultiPolygon", "Polygon"}

\* The properties of a converted record: the item's, without "bbox".
Flatten(item) ==
    [k \in (DOMAIN item.properties) \ {"bbox"} |-> item.properties[k]]

\* ConvertLoop skipping a feature of an unsupported kind instead of raising.
RECURSIVE ConvertLoop_skip(_, _)
ConvertLoop_skip(items, converted) ==
    IF items = <<>> THEN Ok(converted)
    ELSE IF Head(items).geometry.type \in SupportedKinds
         THEN ConvertLoop_skip(Tail(items),
                               Append(converted, [geom |-> Head(items).geometry.type,
                                                  properties |-> Flatten(Head(items))]))
         ELSE ConvertLoop_skip(Tail(items), converted)

\* The loop over all_features: the records converted so far, until one raises.
RECURSIVE ConvertLoop(_, _)
ConvertLoop(items, converted) ==
    IF items = <<>> THEN Ok(converted)
    ELSE IF Head(items).geometry.type \in SupportedKinds
         THEN ConvertLoop(Tail(items),
                          Append(converted, [geom |-> Head(items).geometry.type,
                                             properties |-> Flatten(Head(items))]))
         ELSE Raise("Exception: Unsupported geometry type.")

\* all_features[:max_features]
Truncate(all_features, max_features) ==
    IF max_features # 0 /\ Len(all_features) > max_features
    THEN SubSeq(all_features, 1, max_features) ELSE all_features

\* get_dataset after the loop: truncation, conversion, fc["crs"] and the table.
AfterLoop(fr) ==
    LET all_features == Truncate(fr.all_features, fr.max_features)
        fc == ConvertLoop(all_features, <<>>)
    IN  IF ~IsOk(fc) THEN [fr EXCEPT !.pc = "done", !.result = fc]
        ELSE IF ~fr.data[1].hasCrs
             THEN [fr EXCEPT !.pc = "done", !.result = Raise("KeyError: 'crs'")]
        ELSE [fr EXCEPT !.pc = "done",
                        !.result = Ok([records |-> fc.val,
                                       crs |-> <<"EPSG:", ToString(fr.epsg)>>])]

-----------------------------------------------------------------------------
(* The states in which one part of the library is not in use. *)

NoCall == [op |-> "none", id |-> "", cid |-> "", filter |-> <<>>, kind |-> "none",
           err |-> "", ds |-> 0, val |-> <<>>]

FacadeIdle ==
    /\ datasources = <<>>
    /\ remote = <<>>
    /\ client = <<>>
    /\ calls = <<>>
    /\ ret = NoCall

GdIdle == [pc |-> "idle", max_features |-> 0, epsg |-> 0, page_size |-> 0,
           base_url |-> <<>>, start_index |-> 0, total_received |-> 0,
           all_features |-> <<>>, requests |-> <<>>, data |-> <<>>, result |-> NoResult]

GetIdle ==
    /\ gd = GdIdle
    /\ served = <<>>

NoAdapterCall == [op |-> "none", args |-> <<>>, kind |-> "none", err |-> "", val |-> <<>>]

AdapterIdle ==
    /\ adapter = <<>>
    /\ service = <<>>
    /\ aret = NoAdapterCall
    /\ net = <<>>
    /\ enumerated = <<>>
    /\ first_get = <<>>

NoBuild == [op |-> "none", filter |-> <<>>, bbox |-> "", clause |-> NoResult, url |-> NoResult]

CqlIdle == cql = NoBuild

-----------------------------------------------------------------------------
(* SpecGet: WFS.get_dataset against a server that answers every page       *)
(* request as it likes.                                                    *)

EmptyFilter == <<>>

DateFilter(d) == [k \in {"date"} |-> d]

GeometryKinds == SupportedKinds \cup {"Triangle"}

\* GeoServer adds a bbox property to the features that have an extent.
RawFeature(kind) ==
    [geometry |-> [type |-> kind],
     properties |-> IF kind \in {"Point", "Triangle"}
                    THEN [k \in {"date"} |-> "d"]
                    ELSE [k \in {"date", "bbox"} |-> IF k = "date" THEN "d" ELSE "b"]]

\* All sequences over S of length 0..n.
SeqsUpTo(S, n) == UNION {[1..m -> S] : m \in 0..n}

OkResponse(body) == [status |-> "ok", body |-> body]

FailedResponse(status) ==
    [status |-> status, body |-> [json |-> FALSE, features |-> <<>>, hasCrs |-> FALSE]]

\* What a server may answer to a page request when it has `budget` features left.
PageResponses(budget) ==
    {OkResponse([json |-> TRUE,
                 features |-> [i \in 1..Len(ks) |-> RawFeature(ks[i])],
                 hasCrs |-> c]) :
        ks \in SeqsUpTo(GeometryKinds, IF budget < MaxPageLen THEN budget ELSE MaxPageLen),
        c \in BOOLEAN}
    \cup {OkResponse([json |-> FALSE, features |-> <<>>, hasCrs |-> FALSE]),
          FailedResponse("http_error"), FailedResponse("conn_error")}

page_size_default == 1000

epsg_default == 4326

TestUrl == <<"http://host">>

\* A caller enters get_dataset.
GetDatasetCall ==
    /\ gd.pc \in {"idle", "done"}
    /\ \E ft_name \in {"", "ft"}, max_features \in 0..MaxFeaturesArg :
          gd' = get_dataset_enter(TestUrl, ft_name, max_features, "", DateFilter(<<"d">>),
                                  "json", page_size_default, epsg_default)
    /\ served' = <<>>
    /\ UNCHANGED <<facadeVars, adapterVars, cqlVars>>

\* One iteration of the paging loop.
FetchPage ==
    /\ gd.pc = "loop"
    /\ \E resp \in PageResponses(MaxTotal - Len(gd.all_features)) :
          /\ gd' = LoopIteration(gd, resp)
          /\ served' = Append(served, resp)
    /\ UNCHANGED <<facadeVars, adapterVars, cqlVars>>

\* The code after the loop, up to the return.
FinishDataset ==
    /\ gd.pc = "convert"
    /\ gd' = AfterLoop(gd)
    /\ UNCHANGED <<served>>
    /\ UNCHANGED <<facadeVars, adapterVars, cqlVars>>

InitGet == FacadeIdle /\ GetIdle /\ AdapterIdle /\ CqlIdle

NextGet == GetDatasetCall \/ FetchPage \/ FinishDataset

SpecGet == InitGet /\ [][NextGet]_vars

-----------------------------------------------------------------------------
(* The registry and the facades.                                           *)
(* An adapter is [type, source_id, url]; the registry holds adapters in    *)
(* configuration order and an adapter is named by its position, 0 being    *)
(* None.                                                                   *)

\* Source.__init__ (sources/base.py): keeps the id and the base URL.
Source(type, source_id, url) == [type |-> type, source_id |-> source_id, url |-> url]

\* DataSourceFactory.make: one adapter of the entry's type.
DataSourceFactory_make(type, id, host) == Source(type, id, host)

\* DataSourceManager.load_all: one adapter per entry of config["sources"].
load_all(config) ==
    [i \in 1..Len(config) |->
        DataSourceFactory_make(config[i].type, config[i].id, config[i].host)]

\* LookupFrom falling back to the first adapter when no id matches.
RECURSIVE LookupFrom_default(_, _, _)
LookupFrom_default(dss, id, i) ==
    IF i > Len(dss) THEN (IF Len(dss) > 0 THEN 1 ELSE 0)
    ELSE IF dss[i].source_id = id THEN i
    ELSE LookupFrom_default(dss, id, i + 1)

\* A lookup that keeps scanning and so returns the last adapter with the id.
RECURSIVE LookupLast(_, _, _)
LookupLast(dss, id, i) ==
    IF i = 0 THEN 0
    ELSE IF dss[i].source_id = id THEN i
    ELSE LookupLast(dss, id, i - 1)

get_datasource_by_id_last(dss, id) == LookupLast(dss, id, Len(dss))

\* The loop of DataSourceManager.get_datasource_by_id from position i on.
RECURSIVE LookupFrom(_, _, _)
LookupFrom(dss, id, i) ==
    IF i > Len(dss) THEN 0
    ELSE IF dss[i].source_id = id THEN i
    ELSE LookupFrom(dss, id, i + 1)

\* DataSourceManager.get_datasource_by_id
get_datasource_by_id(dss, id) == LookupFrom(dss, id, 1)

-----------------------------------------------------------------------------
(* The servers behind the facade: every host serves the collections Served *)
(* and answers in the protocol version asked for; its titles and abstracts *)
(* carry the metadata revision it currently holds.                         *)

Served == <<"c1", "c2">>

Revisions == {"r1", "r2"}

Types == {"WFS", "WCS", "STAC"}

SourceIds == {"s1", "s2"}

HostOf(i) == <<"http://host", ToString(i)>>

IsServed(cid) == cid \in Range(Served)

ServerWfsCapabilities(rev) ==
    OkResponse([wellformed |-> TRUE,
                types |-> [i \in 1..Len(Served) |->
                             [name |-> Served[i], title |-> <<"title", Served[i], rev>>,
                              abstract |-> <<"abstract", Served[i], rev>>,
                              bbox |-> [lower |-> "-74 -34", upper |-> "-34 5"]]]])

NoFeatureTypes == [json |-> TRUE, targetPrefix |-> "", featureTypes |-> <<>>]

\* An unknown type name is answered with an error status, an exception report
\* that is no JSON, or a JSON document without feature types.
ServerDescribeFeatureType(cid) ==
    IF IsServed(cid)
    THEN {OkResponse([json |-> TRUE, targetPrefix |-> "ns",
                      featureTypes |-> <<[typeName |-> cid,
                          properties |-> <<[name |-> "geom", localType |-> "Point",
                                            type |-> "gml:Point"],
                                           [name |-> "date", localType |-> "date",
                                            type |-> "xsd:date"]>>]>>])}
    ELSE {[status |-> "http_error", body |-> NoFeatureTypes],
          OkResponse([NoFeatureTypes EXCEPT !.json = FALSE]),
          OkResponse(NoFeatureTypes)}

ServerWcsCapabilities(rev) ==
    OkResponse([wellformed |-> TRUE, ns |-> "wcs/1.1.1",
                summaries |-> [i \in 1..Len(Served) |->
                                 [id |-> Served[i], title |-> <<"title", Served[i], rev>>,
                                  abstract |-> <<"abstract", Served[i], rev>>,
                                  keywords |-> <<"WCS">>,
                                  bbox |-> <<[lower |-> <<-74, -34>>, upper |-> <<-34, 5>>]>>]]])

ServerDescribeCoverage(cid) ==
    OkResponse([wellformed |-> TRUE, ns |-> "wcs/1.1.1", hasDescription |-> IsServed(cid),
                supportedCRS |-> <<"EPSG:4326">>, timepositions |-> <<2, 1>>])

ServerStac(rev) ==
    [status |-> "ok",
     collections |-> [i \in 1..Len(Served) |->
                        [id |-> Served[i], title |-> <<"title", Served[i], rev>>,
                         abstract |-> <<"abstract", Served[i], rev>>]]]

ServerFeatures(cid) ==
    IF IsServed(cid) THEN <<RawFeature("Point"), RawFeature("Polygon")>> ELSE <<>>

\* GetFeature: the features from startIndex on, at most count of them.
ServerGetFeature(cid, req) ==
    LET fs == ServerFeatures(cid)
        last == IF req.startIndex + req.count < Len(fs)
                THEN req.startIndex + req.count ELSE Len(fs)
    IN  IF ~IsServed(cid) THEN FailedResponse("http_error")
        ELSE OkResponse([json |-> TRUE, features |-> SubSeq(fs, req.startIndex + 1, last),
                         hasCrs |-> TRUE])

-----------------------------------------------------------------------------
(* What an adapter method does behind the facade, by adapter type. *)

\* ds.describe(collection_id): the outcomes the server's answers allow.
Adapter_describe(ds, collection_id, rev) ==
    CASE ds.type = "WFS" ->
            {WFS_describe(collection_id, dft, ServerWfsCapabilities(rev)) :
                dft \in ServerDescribeFeatureType(collection_id)}
      [] ds.type = "WCS" ->
            {WCS_describe(collection_id, ServerWcsCapabilities(rev),
                          ServerDescribeCoverage(collection_id))}
      [] ds.type = "STAC" ->
            {STAC_describe(collection_id, ServerStac(rev))}

\* WFS.get_dataset run to its end against the server.
RECURSIVE RunDataset(_, _)
RunDataset(fr, cid) ==
    IF fr.pc = "loop"
    THEN RunDataset(LoopIteration(fr, ServerGetFeature(cid, PageRequest(fr))), cid)
    ELSE IF fr.pc = "convert" THEN AfterLoop(fr)
    ELSE fr

\* ds.get_dataset(collection_id, filter=filter): only WFS defines the method.
Adapter_get_dataset(ds, collection_id, filter) ==
    IF ds.type = "WFS"
    THEN RunDataset(get_dataset_enter(ds.url, collection_id, 0, "", filter, "json",
                                      page_size_default, epsg_default),
                    collection_id).result
    ELSE Raise("AttributeError: object has no attribute 'get_dataset'")

-----------------------------------------------------------------------------
(* Spec: a caller of HARMONIZEDS and of the CollectionClient it hands out. *)

\* The configurations tried: up to MaxSources entries, each on a host of its own.
Configs ==
    {[i \in 1..Len(ts) |-> [type |-> ts[i][1], id |-> ts[i][2], host |-> HostOf(i)]] :
        ts \in SeqsUpTo(Types \X SourceIds, MaxSources)}

LookupIds == SourceIds \cup {"s9"}

CollectionIds == {"", "c1", "c9"}

FacadeFilters == {EmptyFilter, DateFilter(<<"d">>)}

Call(method, ds, cid, filter) == [method |-> method, ds |-> ds, cid |-> cid, filter |-> filter]

Returned(op, id, cid, filter, ds, val) ==
    [op |-> op, id |-> id, cid |-> cid, filter |-> filter, kind |-> "ok", err |-> "",
     ds |-> ds, val |-> val]

Raised(op, id, cid, filter, ds, err) ==
    [op |-> op, id |-> id, cid |-> cid, filter |-> filter, kind |-> "raise", err |-> err,
     ds |-> ds, val |-> <<>>]

SourceNotFound == "ValueError: Fonte de dados nao encontrada."

\* HARMONIZEDS.manager = DataSourceManager(): the registry is loaded once.
Init ==
    /\ \E config \in Configs : datasources = load_all(config)
    /\ remote = [i \in 1..Len(datasources) |-> "r1"]
    /\ client = <<>>
    /\ calls = <<>>
    /\ ret = NoCall
    /\ GetIdle /\ AdapterIdle /\ CqlIdle

\* cls.manager.get_datasource_by_id(id)
GetDatasourceById ==
    /\ \E id \in LookupIds :
          ret' = Returned("get_datasource_by_id", id, "", EmptyFilter,
                          get_datasource_by_id(datasources, id), <<>>)
    /\ calls' = <<>>
    /\ UNCHANGED <<datasources, remote, client>>
    /\ UNCHANGED <<getVars, adapterVars, cqlVars>>

\* HARMONIZEDS.get_collection(id, collection_id), CollectionClient.__init__ included.
GetCollection ==
    /\ \E id \in LookupIds, collection_id \in CollectionIds :
          LET datasource == get_datasource_by_id(datasources, id) IN
          IF datasource = 0
          THEN /\ ret' = Raised("get_collection", id, collection_id, EmptyFilter, 0,
                                SourceNotFound)
               /\ calls' = <<>>
               /\ client' = client
          ELSE \E metadata \in Adapter_describe(datasources[datasource], collection_id,
                                                remote[datasource]) :
               /\ calls' = <<Call("describe", datasource, collection_id, EmptyFilter)>>
               /\ IF IsOk(metadata)
                  THEN /\ client' = <<[datasource |-> datasource,
                                       collection_id |-> collection_id,
                                       metadata |-> metadata.val]>>
                       /\ ret' = Returned("get_collection", id, collection_id, EmptyFilter,
                                          datasource, <<>>)
                  ELSE /\ client' = client
                       /\ ret' = Raised("get_collection", id, collection_id, EmptyFilter,
                                        datasource, metadata.err)
    /\ UNCHANGED <<datasources, remote>>
    /\ UNCHANGED <<getVars, adapterVars, cqlVars>>

\* HARMONIZEDS.describe(id, collection_id)
FacadeDescribe ==
    /\ \E id \in LookupIds, collection_id \in CollectionIds :
          LET datasource == get_datasource_by_id(datasources, id) IN
          IF datasource = 0
          THEN /\ ret' = Raised("describe", id, collection_id, EmptyFilter, 0, SourceNotFound)
               /\ calls' = <<>>
          ELSE \E metadata \in Adapter_describe(datasources[datasource], collection_id,
                                                remote[datasource]) :
               /\ calls' = <<Call("describe", datasource, collection_id, EmptyFilter)>>
               /\ ret' = IF IsOk(metadata)
                         THEN Returned("describe", id, collection_id, EmptyFilter,
                                       datasource, <<metadata.val>>)
                         ELSE Raised("describe", id, collection_id, EmptyFilter,
                                     datasource, metadata.err)
    /\ UNCHANGED <<datasources, remote, client>>
    /\ UNCHANGED <<getVars, adapterVars, cqlVars>>

\* CollectionClient.describe
ClientDescribe ==
    /\ client # <<>>
    /\ ret' = Returned("client.describe", "", client[1].collection_id, EmptyFilter,
                       client[1].datasource, <<client[1].metadata>>)
    /\ calls' = <<>>
    /\ UNCHANGED <<datasources, remote, client>>
    /\ UNCHANGED <<getVars, adapterVars, cqlVars>>

\* A title property that asks the adapter again instead of reading the cache.
ClientTitle_refresh ==
    /\ client # <<>>
    /\ \E metadata \in Adapter_describe(datasources[client[1].datasource],
                                        client[1].collection_id,
                                        remote[client[1].datasource]) :
          /\ IsOk(metadata)
          /\ ret' = Returned("client.title", "", client[1].collection_id, EmptyFilter,
                             client[1].datasource, <<metadata.val.title>>)
    /\ calls' = <<Call("describe", client[1].datasource, client[1].collection_id,
                       EmptyFilter)>>
    /\ UNCHANGED <<datasources, remote, client>>
    /\ UNCHANGED <<getVars, adapterVars, cqlVars>>

\* CollectionClient.title
ClientTitle ==
    /\ client # <<>>
    /\ ret' = Returned("client.title", "", client[1].collection_id, EmptyFilter,
                       client[1].datasource, <<client[1].metadata.title>>)
    /\ calls' = <<>>
    /\ UNCHANGED <<datasources, remote, client>>
    /\ UNCHANGED <<getVars, adapterVars, cqlVars>>

\* CollectionClient.abstract
ClientAbstract ==
    /\ client # <<>>
    /\ ret' = Returned("client.abstract", "", client[1].collection_id, EmptyFilter,
                       client[1].datasource, <<client[1].metadata.abstract>>)
    /\ calls' = <<>>
    /\ UNCHANGED <<datasources, remote, client>>
    /\ UNCHANGED <<getVars, adapterVars, cqlVars>>

\* CollectionClient.get(filter): self._datasource.get_dataset(collection_id, filter=filter)
ClientGet ==
    /\ client # <<>>
    /\ \E filter \in FacadeFilters :
          LET ds == datasources[client[1].datasource]
              out == Adapter_get_dataset(ds, client[1].collection_id, filter)
          IN  /\ calls' = IF ds.type = "WFS"
                          THEN <<Call("get_dataset", client[1].datasource,
                                      client[1].collection_id, filter)>>
                          ELSE <<>>
              /\ ret' = IF IsOk(out)
                        THEN Returned("client.get", "", client[1].collection_id, filter,
                                      client[1].datasource, <<out.val>>)
                        ELSE Raised("client.get", "", client[1].collection_id, filter,
                                    client[1].datasource, out.err)
    /\ UNCHANGED <<datasources, remote, client>>
    /\ UNCHANGED <<getVars, adapterVars, cqlVars>>

\* The operator of a server edits its metadata.
RemoteChange ==
    /\ \E i \in DOMAIN remote, rev \in Revisions :
          /\ rev # remote[i]
          /\ remote' = [remote EXCEPT ![i] = rev]
    /\ UNCHANGED <<datasources, client, calls, ret>>
    /\ UNCHANGED <<getVars, adapterVars, cqlVars>>

Next ==
    \/ GetDatasourceById
    \/ GetCollection
    \/ FacadeDescribe
    \/ ClientDescribe
    \/ ClientTitle
    \/ ClientAbstract
    \/ ClientGet
    \/ RemoteChange

Spec == Init /\ [][Next]_vars

-----------------------------------------------------------------------------
(* Claims about the registry and the facades (Spec) *)

Registered(id) == \E i \in 1..Len(datasources) : datasources[i].source_id = id

\* C1: a lookup by id returns an adapter with that source id when one is
\* registered, returns None without raising when none is, and never returns
\* an adapter whose source id differs.
C1_LookupById ==
    ret.op = "get_datasource_by_id" =>
        /\ ret.kind = "ok"
        /\ Registered(ret.id) => ret.ds \in 1..Len(datasources)
        /\ ~Registered(ret.id) => ret.ds = 0
        /\ ret.ds # 0 => datasources[ret.ds].source_id = ret.id

\* The second adapter is found, and an unregistered id is looked up in a
\* registry that is not empty.
C1_Witness ==
    /\ ret.op = "get_datasource_by_id"
    /\ Len(datasources) = 2
    /\ \/ ret.ds = 2 /\ datasources[1].source_id # ret.id
       \/ ret.ds = 0 /\ ret.id = "s2"

\* C8 as claimed: get on a client of any adapter type returns the adapter's
\* data: the table of get_dataset for WFS, the GetCoverage URL for WCS.
C8_FacadeGetWorks ==
    (ret.op = "client.get" /\ client # <<>> /\ client[1].datasource = ret.ds) =>
        LET ds == datasources[ret.ds] IN
        /\ ret.kind = "ok"
        /\ ds.type = "WFS" =>
              /\ calls = <<Call("get_dataset", ret.ds, client[1].collection_id, ret.filter)>>
              /\ Len(ret.val[1].records) = Len(ServerFeatures(client[1].collection_id))
        /\ ds.type = "WCS" =>
              ret.val = <<WCS_get(ds.url, client[1].collection_id, ret.filter, epsg_default)>>

FirstWith(id) ==
    CHOOSE i \in 1..Len(datasources) :
        /\ datasources[i].source_id = id
        /\ \A j \in 1..(i - 1) : datasources[j].source_id # id

C9_Unregistered ==
    (ret.op = "get_collection" /\ ~Registered(ret.id)) =>
        /\ ret.kind = "raise"
        /\ ret.err = SourceNotFound
        /\ calls = <<>>

\* C9 as claimed: an unregistered id fails with not-found and no adapter call,
\* a registered id returns a client bound to the adapter of the lookup.
C9_StateOriginal ==
    /\ C9_Unregistered
    /\ (ret.op = "get_collection" /\ Registered(ret.id)) =>
          /\ ret.kind = "ok"
          /\ client # <<>>
          /\ client[1].datasource = FirstWith(ret.id)
          /\ client[1].collection_id = ret.cid

C9_Original == [][datasources' = datasources /\ C9_StateOriginal']_vars

C9_StateAmended ==
    /\ C9_Unregistered
    /\ (ret.op = "get_collection" /\ Registered(ret.id)) =>
          /\ calls = <<Call("describe", FirstWith(ret.id), ret.cid, EmptyFilter)>>
          /\ ret.kind = "ok" =>
                /\ client # <<>>
                /\ client[1].datasource = FirstWith(ret.id)
                /\ client[1].collection_id = ret.cid
          /\ ret.kind = "raise" =>
                \E rev \in Revisions :
                \E out \in Adapter_describe(datasources[FirstWith(ret.id)], ret.cid, rev) :
                    ~IsOk(out) /\ out.err = ret.err

\* C9 (amended): an unregistered id fails with not-found, calls no adapter and
\* leaves the registry unchanged; a registered id constructs the client on the
\* first adapter with that id, calling its describe once, and returns it when
\* describe succeeds; when describe raises, that exception is the outcome
\* and the caller gets no client.
C9_GetCollection ==
    [][/\ datasources' = datasources
       /\ C9_StateAmended'
       /\ (ret'.op = "get_collection" /\ ret'.kind = "raise") => client' = client]_vars

\* Both cases happen: the second of two adapters bound, and an unregistered id
\* refused while a client exists.
C9_Witness ==
    /\ ret.op = "get_collection"
    /\ Len(datasources) = 2
    /\ \/ ret.kind = "ok" /\ client # <<>> /\ client[1].datasource = 2
       \/ ~Registered(ret.id) /\ ret.kind = "raise"

ReadOps == {"client.describe", "client.title", "client.abstract"}

ReadOf(op, metadata) ==
    CASE op = "client.describe" -> <<metadata>>
      [] op = "client.title" -> <<metadata.title>>
      [] op = "client.abstract" -> <<metadata.abstract>>

\* C10: constructing a client calls describe once, for the bound id on the
\* bound adapter; describe(), title and abstract call no adapter and answer
\* from the cached record, which nothing but a construction replaces, whatever
\* the server's metadata has become.
C10_DescribeOnce ==
    [][/\ (ret'.op = "get_collection" /\ ret'.kind = "ok") =>
              calls' = <<Call("describe", client'[1].datasource,
                              client'[1].collection_id, EmptyFilter)>>
       /\ ret'.op \in ReadOps =>
              /\ calls' = <<>>
              /\ client # <<>>
              /\ client' = client
              /\ ret'.val = ReadOf(ret'.op, client[1].metadata)
       /\ client' # client =>
              /\ ret'.op = "get_collection" /\ ret'.kind = "ok"
              /\ \E out \in Adapter_describe(datasources[client'[1].datasource],
                                             client'[1].collection_id,
                                             remote[client'[1].datasource]) :
                    IsOk(out) /\ out.val = client'[1].metadata]_vars

\* A title is read after the server's metadata moved on from the cached one.
C10_Witness ==
    /\ ret.op = "client.title"
    /\ client # <<>>
    /\ ret.val = <<client[1].metadata.title>>
    /\ client[1].metadata.title[3] # remote[client[1].datasource]

-----------------------------------------------------------------------------
(* Claims about WFS.get_dataset (SpecGet) *)

\* The features of the first k responses, in arrival order.
RECURSIVE Arrived(_, _)
Arrived(resps, k) ==
    IF k = 0 THEN <<>> ELSE Arrived(resps, k - 1) \o resps[k].body.features

AllPagesDecoded == \A k \in 1..Len(served) : served[k].status = "ok" /\ served[k].body.json

NoLimit == gd.max_features = 0

\* C2: with no max_features and every page decoded, each request's startIndex
\* is the number of features received in the earlier pages, the loop goes on
\* exactly while pages are non-empty and stops at the first empty one (one
\* request per non-empty page plus the final one), the features kept are the
\* pages' features in arrival order, and a call that converts them all and
\* finds the crs returns a table of exactly that many records in that order.
C2_Pagination ==
    (gd.pc # "idle" /\ NoLimit /\ AllPagesDecoded) =>
        LET n == Len(served) IN
        /\ Len(gd.requests) = n
        /\ \A k \in 1..n : gd.requests[k].startIndex = Len(Arrived(served, k - 1))
        /\ \A k \in 1..n : gd.requests[k].count = page_size_default
        /\ \A k \in 1..(n - 1) : served[k].body.features # <<>>
        /\ (gd.pc = "loop" /\ n > 0 => served[n].body.features # <<>>)
        /\ (gd.pc \in {"convert", "done"} /\ n > 0 => served[n].body.features = <<>>)
        /\ gd.all_features = Arrived(served, n)
        /\ (/\ gd.pc = "done" /\ n > 0
            /\ \A i \in 1..Len(gd.all_features) :
                  gd.all_features[i].geometry.type \in SupportedKinds
            /\ served[n].body.hasCrs)
           => /\ IsOk(gd.result)
              /\ Len(gd.result.val.records) = Len(Arrived(served, n))
              /\ \A i \in 1..Len(gd.all_features) :
                    gd.result.val.records[i].geom = Arrived(served, n)[i].geometry.type

\* Three non-empty pages and an empty one: four requests, all records returned.
C2_Witness ==
    /\ gd.pc = "done" /\ NoLimit /\ AllPagesDecoded
    /\ Len(served) = 4 /\ Len(gd.requests) = 4
    /\ IsOk(gd.result)
    /\ Len(gd.result.val.records) = 3
    /\ gd.result.val.records[1].geom # gd.result.val.records[2].geom

HasUnsupported == \E i \in 1..Len(gd.all_features) :
                     gd.all_features[i].geometry.type \notin SupportedKinds

\* C3: with no max_features, a call that fetched a feature of an unsupported
\* kind returns no table, and once the loop has ended it fails with the
\* unsupported-geometry exception; when every kind is supported the call never
\* fails with that exception and a returned table holds every fetched feature.
C3_UnsupportedGeometry ==
    (gd.pc = "done" /\ NoLimit) =>
        /\ HasUnsupported => ~IsOk(gd.result)
        /\ (HasUnsupported /\ AllPagesDecoded)
              => gd.result = Raise("Exception: Unsupported geometry type.")
        /\ ~HasUnsupported =>
              /\ gd.result.err # "Exception: Unsupported geometry type."
              /\ IsOk(gd.result) => Len(gd.result.val.records) = Len(gd.all_features)

\* A Triangle arrives after a supported feature and the call fails.
C3_Witness ==
    /\ gd.pc = "done" /\ NoLimit /\ AllPagesDecoded
    /\ Len(gd.all_features) >= 2
    /\ gd.all_features[1].geometry.type = "Point"
    /\ gd.all_features[Len(gd.all_features)].geometry.type = "Triangle"
    /\ gd.result.kind = "raise"

-----------------------------------------------------------------------------
(* SpecFilter: the filters a caller hands to WFS.get_dataset, and the       *)
(* clause and GetFeature URL built from each.                              *)

\* The longest date value tried.
MaxDateLen == 4

DateChars == {"1", "-", "/"}

DateValues == SeqsUpTo(DateChars, MaxDateLen)

BboxValue == <<-74, -34, -34, 5>>

\* Filters with a date, with a bbox, with both and with neither.
WfsFilters ==
    {DateFilter(d) : d \in DateValues}
    \cup {("date" :> d) @@ ("bbox" :> BboxValue) : d \in DateValues}
    \cup {"bbox" :> BboxValue, EmptyFilter}

\* get_dataset(ft_name, bbox=bbox, filter=filter) up to its first request.
BuildRequest ==
    /\ \E filter \in WfsFilters, bbox \in {"", "-74,-34,-34,5"} :
          cql' = [op |-> "built", filter |-> filter, bbox |-> bbox,
                  clause |-> build_cql_filter(filter),
                  url |-> GetFeatureUrl(TestUrl, "ft", bbox, filter, "json", epsg_default)]
    /\ UNCHANGED <<facadeVars, getVars, adapterVars>>

InitFilter == FacadeIdle /\ GetIdle /\ AdapterIdle /\ CqlIdle

NextFilter == BuildRequest

SpecFilter == InitFilter /\ [][NextFilter]_vars

-----------------------------------------------------------------------------
(* Claims about the WFS filter (SpecFilter) *)

NoSlash == SeqsUpTo(DateChars \ {"/"}, MaxDateLen)

HasDate == cql.op = "built" /\ "date" \in DOMAIN cql.filter

\* C4: a date value D1/D2 (D1, D2 without '/') gives exactly the clause
\* date BETWEEN 'D1' AND 'D2'; a date value D without '/' gives exactly
\* date = 'D'; a filter without a date key gives the empty clause, and the
\* GetFeature URL then carries no cql_filter parameter.
C4_DateClause ==
    /\ HasDate =>
          /\ \A D1 \in NoSlash, D2 \in NoSlash :
                cql.filter["date"] = D1 \o <<"/">> \o D2 =>
                    cql.clause = Ok(<<"date BETWEEN '">> \o D1 \o <<"' AND '">> \o D2 \o <<"'">>)
          /\ cql.filter["date"] \in NoSlash =>
                cql.clause = Ok(<<"date = '">> \o cql.filter["date"] \o <<"'">>)
    /\ (cql.op = "built" /\ "date" \notin DOMAIN cql.filter) =>
          /\ cql.clause = Ok(<<>>)
          /\ IsOk(cql.url)
          /\ "&cql_filter=" \notin Range(cql.url.val)

\* A range with two different ends was given and a clause came out.
C4_Witness ==
    /\ HasDate
    /\ cql.filter["date"] = <<"1", "/", "-", "1">>
    /\ IsOk(cql.clause)
    /\ IsOk(cql.url)

-----------------------------------------------------------------------------
(* SpecAdapter: one adapter called directly, against a server that does    *)
(* not change.  The server is [status, wellformed, ns, ids, described]:    *)
(* how its requests end, whether its capabilities document parses, the     *)
(* namespace of that document (WCS), the collections it lists in document  *)
(* order, and the names its describe endpoint knows; properties is the     *)
(* property list of the feature types a WFS server describes.              *)

\* The most collections a capabilities document lists.
MaxIds == 2

Names == {"a", "b"}

\* The property list of the feature types a WFS server describes, unless said
\* otherwise: one geometry attribute.
PointProperties == <<[name |-> "geom", localType |-> "Point", type |-> "gml:Point"]>>

Service(status, wellformed, ns, ids, described) ==
    [status |-> status, wellformed |-> wellformed, ns |-> ns, ids |-> ids,
     described |-> described, properties |-> PointProperties]

Services(type) ==
    {Service(st, FALSE, "", <<>>, {}) : st \in {"http_error", "conn_error"}}
    \cup
    CASE type = "WFS" ->
            {Service("ok", FALSE, "wfs/2.0", <<>>, {})}
            \cup {Service("ok", TRUE, "wfs/2.0", ids, d) :
                     ids \in SeqsUpTo(Names, MaxIds), d \in SUBSET Names}
      [] type = "WCS" ->
            {Service("ok", FALSE, "", <<>>, {})}
            \cup {Service("ok", TRUE, ns, ids, d) :
                     ns \in {"wcs/2.0", "wcs/1.1.1"},
                     ids \in SeqsUpTo(Names \cup {""}, MaxIds), d \in SUBSET Names}
      [] type = "STAC" ->
            {Service("ok", TRUE, "", ids, Range(ids)) : ids \in SeqsUpTo(Names, MaxIds)}

\* The server's answer to GetCapabilities (WFS).
WfsCapabilitiesOf(svc) ==
    [status |-> svc.status,
     body |-> [wellformed |-> svc.wellformed,
               types |-> [i \in 1..Len(svc.ids) |->
                            [name |-> svc.ids[i], title |-> <<"title", svc.ids[i]>>,
                             abstract |-> <<"abstract", svc.ids[i]>>,
                             bbox |-> [lower |-> "-74 -34", upper |-> "-34 5"]]]]]

\* The server's answer to DescribeFeatureType.
DescribeFeatureTypeOf(svc, name) ==
    [status |-> svc.status,
     body |-> IF name \in svc.described
              THEN [json |-> TRUE, targetPrefix |-> "ns",
                    featureTypes |-> <<[typeName |-> name,
                                        properties |-> svc.properties]>>]
              ELSE NoFeatureTypes]

\* The server's answer to GetCapabilities (WCS): list_image and
\* getcapabilities send the same request.
WcsCapabilitiesOf(svc) ==
    [status |-> svc.status,
     body |-> [wellformed |-> svc.wellformed, ns |-> svc.ns,
               summaries |-> [i \in 1..Len(svc.ids) |->
                                [id |-> svc.ids[i], title |-> <<"title", svc.ids[i]>>,
                                 abstract |-> <<"abstract", svc.ids[i]>>,
                                 keywords |-> <<"WCS">>, bbox |-> <<>>]]]]

\* The server's answer to DescribeCoverage.
DescribeCoverageOf(svc, cid) ==
    [status |-> svc.status,
     body |-> [wellformed |-> svc.wellformed, ns |-> "wcs/1.1.1",
               hasDescription |-> cid \in svc.described,
               supportedCRS |-> <<"EPSG:4326">>, timepositions |-> <<>>]]

\* The pystac session's view of the server.
StacOf(svc) ==
    [status |-> svc.status,
     collections |-> [i \in 1..Len(svc.ids) |->
                        [id |-> svc.ids[i], title |-> <<"title", svc.ids[i]>>,
                         abstract |-> <<"abstract", svc.ids[i]>>]]]

AdapterReturn(op, args, out) ==
    [op |-> op, args |-> args, kind |-> out.kind, err |-> out.err, val |-> out.val]

\* adapter.collections
Collections(ad, svc) ==
    CASE ad.type = "WFS" -> WFS_collections(ad.source_id, WfsCapabilitiesOf(svc))
      [] ad.type = "WCS" -> WCS_collections(ad.source_id, WcsCapabilitiesOf(svc))
      [] ad.type = "STAC" -> STAC_collections(ad.source_id, StacOf(svc))

\* adapter.describe(collection_id)
Describe(ad, svc, cid) ==
    CASE ad.type = "WFS" ->
            WFS_describe(cid, DescribeFeatureTypeOf(svc, cid), WfsCapabilitiesOf(svc))
      [] ad.type = "WCS" ->
            WCS_describe(cid, WcsCapabilitiesOf(svc), DescribeCoverageOf(svc, cid))
      [] ad.type = "STAC" -> STAC_describe(cid, StacOf(svc))

\* The requests describe sends: the second only when the first call returned.
DescribeRequests(ad, svc, cid) ==
    CASE ad.type = "WFS" ->
            IF cid = "" THEN <<>>
            ELSE IF ~IsOk(describe_feature(cid, DescribeFeatureTypeOf(svc, cid)))
                 THEN <<"DescribeFeatureType">>
                 ELSE <<"DescribeFeatureType", "GetCapabilities">>
      [] ad.type = "WCS" ->
            IF ~IsOk(getcapabilities(cid, WcsCapabilitiesOf(svc)))
            THEN <<"GetCapabilities">>
            ELSE <<"GetCapabilities", "DescribeCoverage">>
      [] ad.type = "STAC" -> <<"collections/{id}">>

InitAdapter ==
    /\ \E type \in Types :
          /\ adapter = <<Source(type, "s1", TestUrl)>>
          /\ service \in Services(type)
    /\ aret = NoAdapterCall
    /\ net = <<>>
    /\ enumerated = <<>>
    /\ first_get = <<>>
    /\ FacadeIdle /\ GetIdle /\ CqlIdle

\* Another operation follows the remembered WCS.get call.
Interleaved(fg) == IF fg = <<>> THEN fg ELSE <<[fg[1] EXCEPT !.others = TRUE]>>

\* adapter.collections
CallCollections ==
    /\ LET out == Collections(adapter[1], service) IN
          /\ aret' = AdapterReturn("collections", <<>>, out)
          /\ enumerated' = IF IsOk(out)
                           THEN [i \in 1..Len(out.val) |-> out.val[i].collection]
                           ELSE <<>>
    /\ net' = <<"GetCapabilities">>
    /\ first_get' = Interleaved(first_get)
    /\ UNCHANGED <<adapter, service>>
    /\ UNCHANGED <<facadeVars, getVars, cqlVars>>

\* WCS.list_image
CallListImage ==
    /\ adapter[1].type = "WCS"
    /\ aret' = AdapterReturn("list_image", <<>>, list_image(WcsCapabilitiesOf(service)))
    /\ net' = <<"GetCapabilities">>
    /\ first_get' = Interleaved(first_get)
    /\ UNCHANGED <<adapter, service, enumerated>>
    /\ UNCHANGED <<facadeVars, getVars, cqlVars>>

\* adapter.describe(collection_id)
CallDescribe ==
    /\ \E cid \in Names \cup {"", "z"} :
          /\ aret' = AdapterReturn("describe", <<cid>>, Describe(adapter[1], service, cid))
          /\ net' = DescribeRequests(adapter[1], service, cid)
    /\ first_get' = Interleaved(first_get)
    /\ UNCHANGED <<adapter, service, enumerated>>
    /\ UNCHANGED <<facadeVars, getVars, cqlVars>>

WcsFilters ==
    {EmptyFilter,
     "time" :> "2018-12-30",
     "width" :> 256,
     ("bbox" :> BboxValue) @@ ("width" :> 256) @@ ("height" :> 128),
     ("time" :> "2018-12-30") @@ ("format" :> "image/tiff")}

Srids == {4326, 3857}

\* A get that first asks the server whether the coverage exists.
CallWcsGet_probing ==
    /\ adapter[1].type = "WCS"
    /\ \E cid \in {"a"}, filter \in WcsFilters, srid \in Srids :
          LET url == WCS_get(adapter[1].url, cid, filter, srid) IN
          /\ aret' = AdapterReturn("get", <<cid, filter, srid>>, Ok(url))
          /\ first_get' = IF first_get = <<>>
                          THEN <<[args |-> <<cid, filter, srid>>, url |-> url,
                                  others |-> FALSE]>>
                          ELSE first_get
    /\ net' = <<"GetCapabilities">>
    /\ UNCHANGED <<adapter, service, enumerated>>
    /\ UNCHANGED <<facadeVars, getVars, cqlVars>>

\* WCS.get(collection_id, filter, srid)
CallWcsGet ==
    /\ adapter[1].type = "WCS"
    /\ \E cid \in {"a"}, filter \in WcsFilters, srid \in Srids :
          LET url == WCS_get(adapter[1].url, cid, filter, srid) IN
          /\ aret' = AdapterReturn("get", <<cid, filter, srid>>, Ok(url))
          /\ first_get' = IF first_get = <<>>
                          THEN <<[args |-> <<cid, filter, srid>>, url |-> url,
                                  others |-> FALSE]>>
                          ELSE first_get
    /\ net' = <<>>
    /\ UNCHANGED <<adapter, service, enumerated>>
    /\ UNCHANGED <<facadeVars, getVars, cqlVars>>

NextAdapter == CallCollections \/ CallListImage \/ CallDescribe \/ CallWcsGet

SpecAdapter == InitAdapter /\ [][NextAdapter]_vars

-----------------------------------------------------------------------------
(* Claims about the adapters (SpecAdapter) *)

\* C5: a WCS.get call sends no request and leaves the adapter and the server
\* as they were, and a later call with the arguments of an earlier one returns
\* the same URL, whatever was called in between.
C5_WcsGetPure ==
    [][aret'.op = "get" =>
          /\ net' = <<>>
          /\ adapter' = adapter
          /\ service' = service
          /\ first_get' # <<>>
          /\ first_get'[1].args = aret'.args => aret'.val = first_get'[1].url]_vars

\* The arguments of the first get are given again after other calls.
C5_Witness ==
    /\ aret.op = "get"
    /\ first_get # <<>>
    /\ first_get[1].others
    /\ first_get[1].args = aret.args
    /\ aret.val = first_get[1].url
    /\ "&width=" \in Range(aret.val)

Unparsable == service.status = "ok" /\ ~service.wellformed

\* C6: on a capabilities body that is no XML, list_image returns the empty
\* list and WCS collections is empty; an HTTP status error or a connection
\* failure of the same request is raised to the caller.
C6_ListImageLenient ==
    (adapter # <<>> /\ adapter[1].type = "WCS" /\ aret.op \in {"list_image", "collections"}) =>
        /\ Unparsable => (aret.kind = "ok" /\ aret.val = <<>>)
        /\ service.status = "http_error" =>
              (aret.kind = "raise" /\ aret.err = "RemoteServiceError")
        /\ service.status = "conn_error" =>
              (aret.kind = "raise" /\ aret.err = "ConnectionError")

\* list_image met a body that does not parse.
C6_Witness ==
    /\ adapter # <<>> /\ adapter[1].type = "WCS"
    /\ aret.op = "list_image"
    /\ Unparsable
    /\ aret.kind = "ok" /\ aret.val = <<>>

\* The server answers, and describes every collection it lists.
ConsistentService ==
    /\ service.status = "ok"
    /\ service.wellformed
    /\ Range(service.ids) \cap Names \subseteq service.described

\* C7 as claimed: on such a server, describe of an id that the adapter's
\* collections returned succeeds, for each adapter type.
C7_RoundTrip ==
    (/\ adapter # <<>>
     /\ aret.op = "describe"
     /\ \E i \in 1..Len(enumerated) : enumerated[i] = aret.args[1]
     /\ ConsistentService)
    => aret.kind = "ok"

\* The same, for the WFS and STAC adapters alone.
RoundTripWfsStac == (adapter # <<>> /\ adapter[1].type # "WCS") => C7_RoundTrip

-----------------------------------------------------------------------------
(* The registry after load_all (Spec) *)

\* C11 as claimed: after load_all no two registered adapters have the same
\* source id, so an id identifies at most one adapter.
C11_UniqueIds ==
    \A i, j \in 1..Len(datasources) :
        datasources[i].source_id = datasources[j].source_id => i = j

\* What load_all does establish: the registry has one adapter per entry of
\* the configuration, in order, each with its entry's id, and no call changes it.
C11_OnePerEntry ==
    \E config \in Configs :
        /\ Len(datasources) = Len(config)
        /\ \A i \in 1..Len(config) : datasources[i].source_id = config[i].id

\* Two adapters share an id and a lookup by that id has returned the first.
C11_Duplicates ==
    /\ ret.op = "get_datasource_by_id"
    /\ Len(datasources) = 2
    /\ datasources[1].source_id = datasources[2].source_id
    /\ ret.id = datasources[2].source_id
    /\ ret.ds = 1

-----------------------------------------------------------------------------
(* WFS.describe of a feature type the server does not know (SpecAdapter) *)

\* describe(name) was called on a WFS adapter whose two requests are answered.
WfsDescribed ==
    /\ adapter # <<>> /\ adapter[1].type = "WFS"
    /\ aret.op = "describe" /\ aret.args[1] # ""
    /\ service.status = "ok" /\ service.wellformed

AbsentFromDescribeFeatureType == aret.args[1] \notin service.described

AbsentFromCapabilities == aret.args[1] \notin Range(service.ids)

\* The errors by which the adapters report a name the server does not know.
NotFoundErrors == {"ValueError: No featureTypes found in response."}

\* C12 as claimed: WFS describe(name) raises a not-found error when the
\* feature type is absent from the DescribeFeatureType response or from the
\* GetCapabilities document, and returns no record in either case.
C12_DescribeNotFound ==
    (WfsDescribed /\ (AbsentFromDescribeFeatureType \/ AbsentFromCapabilities)) =>
        /\ aret.kind = "raise"
        /\ aret.err \in NotFoundErrors

\* The parts of it that the code keeps: no record is returned in either case,
\* and absence from the DescribeFeatureType response is a not-found error.
C12_NoPartialRecord ==
    (WfsDescribed /\ (AbsentFromDescribeFeatureType \/ AbsentFromCapabilities)) =>
        /\ aret.kind = "raise"
        /\ AbsentFromDescribeFeatureType => aret.err \in NotFoundErrors

\* The feature type is described but not listed: describe ends in a TypeError.
C12_AbsentFromCapabilities ==
    /\ WfsDescribed
    /\ ~AbsentFromDescribeFeatureType /\ AbsentFromCapabilities
    /\ aret.kind = "raise"
    /\ aret.err = "TypeError: 'NoneType' object is not subscriptable"
    /\ net = <<"DescribeFeatureType", "GetCapabilities">>

-----------------------------------------------------------------------------
(* The filter keys of WFS get_dataset (SpecFilter) *)

\* t occurs in s as a run of consecutive pieces.
Contains(s, t) == \E i \in 0..(Len(s) - Len(t)) : SubSeq(s, i + 1, i + Len(t)) = t

\* A request URL was built from a filter.
Built == cql.op = "built" /\ IsOk(cql.url)

\* C13 as claimed: a filter with a bbox key puts the comma-joined bbox into
\* the request, a filter with a date key puts the date clause into it, and a
\* filter with both gives one expression in which the two are joined by AND.
C13_FilterKeys ==
    Built =>
        /\ "bbox" \in DOMAIN cql.filter => Contains(cql.url.val, Join(cql.filter["bbox"]))
        /\ "date" \in DOMAIN cql.filter =>
              Contains(cql.url.val, <<"&cql_filter=">> \o cql.clause.val)
        /\ {"bbox", "date"} \subseteq DOMAIN cql.filter => " AND " \in Range(cql.clause.val)

\* What the code does: only the date key is read.  The clause and the URL of
\* a filter are those of the same filter without its bbox key, and the date
\* clause, when there is one, is the whole cql_filter parameter.
C13_DateKeyOnly ==
    Built =>
        /\ "date" \in DOMAIN cql.filter =>
              /\ cql.clause = build_cql_filter(DateFilter(cql.filter["date"]))
              /\ Contains(cql.url.val, <<"&cql_filter=">> \o cql.clause.val)
        /\ "date" \notin DOMAIN cql.filter =>
              /\ cql.clause = Ok(<<>>)
              /\ "&cql_filter=" \notin Range(cql.url.val)
        /\ " AND " \notin Range(cql.url.val)
        /\ cql.bbox = "" => ~(\E i \in 1..Len(cql.url.val) : cql.url.val[i] \in {"&bbox=", ","})

\* A filter with both keys was given, without the bbox argument: the request
\* carries the date clause and nothing of the bbox.
C13_BboxDropped ==
    /\ Built
    /\ DOMAIN cql.filter = {"bbox", "date"}
    /\ cql.bbox = ""
    /\ cql.clause = Ok(<<"date = '", "1", "'">>)
    /\ ~Contains(cql.url.val, Join(cql.filter["bbox"]))

-----------------------------------------------------------------------------
(* SpecDescribe: WFS.describe of a feature type whose property list the    *)
(* server chooses.                                                         *)

\* The most properties a described feature type has.
MaxProps == 3

PropertyTypes == {"gml:Point", "gml:Polygon", "xsd:date"}

\* The property lists tried: the i-th property is named by its position.
PropertyLists ==
    {[i \in 1..Len(ts) |->
        [name |-> <<"p", i>>, localType |-> ts[i], type |-> ts[i]]] :
        ts \in SeqsUpTo(PropertyTypes, MaxProps)}

InitDescribe ==
    /\ adapter = <<Source("WFS", "s1", TestUrl)>>
    /\ \E ps \in PropertyLists :
          service = [Service("ok", TRUE, "wfs/2.0", <<"a">>, {"a"}) EXCEPT !.properties = ps]
    /\ aret = NoAdapterCall
    /\ net = <<>>
    /\ enumerated = <<>>
    /\ first_get = <<>>
    /\ FacadeIdle /\ GetIdle /\ CqlIdle

NextDescribe == CallCollections \/ CallDescribe

SpecDescribe == InitDescribe /\ [][NextDescribe]_vars

\* describe returned the record of a feature type.
RecordReturned == aret.op = "describe" /\ aret.kind = "ok"

\* The positions of the properties of a supported geometry type.
GeometryPositions ==
    {i \in 1..Len(service.properties) : service.properties[i].type \in supported_geometries}

\* C14 as claimed: the geometry attribute of the record is the first
\* property, in the order of the property list, of a supported geometry type;
\* later ones do not replace it, and without any the record has no geometry.
C14_FirstGeometry ==
    RecordReturned =>
        /\ GeometryPositions = {} => aret.val.geometry = <<>>
        /\ \A i \in GeometryPositions :
              (\A j \in GeometryPositions : i <= j) =>
                  aret.val.geometry = <<Attr(service.properties[i])>>

\* What the loop does: every property of a supported type replaces the
\* geometry attribute, so the record keeps the last one.
C14_LastGeometry ==
    RecordReturned =>
        /\ GeometryPositions = {} => aret.val.geometry = <<>>
        /\ \A i \in GeometryPositions :
              (\A j \in GeometryPositions : j <= i) =>
                  aret.val.geometry = <<Attr(service.properties[i])>>
        /\ Len(aret.val.attributes) = Len(service.properties)

\* Two properties have a supported geometry type and the record has the second.
C14_SecondGeometry ==
    /\ RecordReturned
    /\ GeometryPositions = {1, 3}
    /\ aret.val.geometry = <<Attr(service.properties[3])>>
    /\ aret.val.geometry # <<Attr(service.properties[1])>>

-----------------------------------------------------------------------------
(* get_dataset with max_features (SpecGet) *)

\* A call with max_features = N > 0 is under way or has ended.
Limited == gd.pc \in {"loop", "convert", "done"} /\ gd.max_features > 0

Min(a, b) == IF a < b THEN a ELSE b

\* C15: with max_features = N > 0 the loop asks for another page only while
\* fewer than N features have been received, every page before having been
\* non-empty, so at most N requests are sent whatever the server answers; a
\* returned table has exactly min(N, features received) records, the first
\* ones in arrival order.
C15_MaxFeatures ==
    Limited =>
        LET N == gd.max_features
            arrived == Arrived(served, Len(served))
        IN  /\ Len(gd.requests) = Len(served)
            /\ Len(gd.requests) <= N
            /\ gd.pc = "loop" =>
                  /\ gd.total_received < N
                  /\ Len(gd.requests) <= gd.total_received
                  /\ \A k \in 1..Len(served) : served[k].body.features # <<>>
            /\ IsOk(gd.result) =>
                  /\ gd.total_received = Len(arrived)
                  /\ Len(gd.result.val.records) = Min(N, Len(arrived))
                  /\ \A i \in 1..Len(gd.result.val.records) :
                        gd.result.val.records[i].geom = arrived[i].geometry.type

\* N = 2: a page of one feature and a page of two.  No third request is sent
\* and the table has the first two features; the third, of a kind that
\* cannot be converted, is cut off before the conversion.
C15_Witness ==
    /\ gd.pc = "done" /\ gd.max_features = 2
    /\ Len(gd.requests) = 2
    /\ gd.total_received = 3
    /\ gd.all_features[3].geometry.type = "Triangle"
    /\ IsOk(gd.result)
    /\ Len(gd.result.val.records) = 2
    /\ gd.result.val.records[1].geom # gd.result.val.records[2].geom

=============================================================================
